---- MODULE Spec2Model ----
(***************************************************************************)
(* Model of the temporal correlation engine                                *)
(*   src/src/nanopyx/core/transform/sr_temporal_correlations.py            *)
(* and of the sub-pixel peak locator                                       *)
(*   src/src/enanoscopy/methods/image/drift/estimate_shift.py              *)
(*                                                                         *)
(* One call is in progress at a time (both components are synchronous).    *)
(* Pixel values are exact rationals <<numerator, denominator>>; the        *)
(* inputs are small integers, which float32 represents exactly.  The      *)
(* not-a-number value of numpy is the pair <<0, 0>>.  Arrays live in a     *)
(* heap of buffers so that aliasing between the caller's array and the     *)
(* working arrays of the callee is part of the state.                      *)
(***************************************************************************)
EXTENDS Integers, Sequences, FiniteSets, TLC

\* ------------------------------------------------------------------ bounds
MaxCells == 6
MaxH == 2
MaxW == 2
MaxEvals == 5
MaxSurfaceSide == 2

\* pixel intensities offered by the caller
Vals == {-1, 0, 2}
\* surface samples offered to the peak locator
SurfaceVals == {0, 1}

\* --------------------------------------------------------------- rationals
RECURSIVE GCD(_, _)
GCD(a, b) == IF b = 0 THEN a ELSE GCD(b, a % b)

IAbs(i) == IF i < 0 THEN -i ELSE i

Rat(n, d) ==
    LET s == IF d < 0 THEN -1 ELSE 1
        g == GCD(IAbs(n), IAbs(d))
    IN  IF n = 0 THEN <<0, 1>> ELSE <<(s * n) \div g, (s * d) \div g>>

Zero == <<0, 1>>
One == <<1, 1>>
Half == <<1, 2>>
NaN == <<0, 0>>
FromInt(i) == <<i, 1>>

RAdd(x, y) == Rat(x[1] * y[2] + y[1] * x[2], x[2] * y[2])
RSub(x, y) == Rat(x[1] * y[2] - y[1] * x[2], x[2] * y[2])
RMul(x, y) == Rat(x[1] * y[1], x[2] * y[2])
RDiv(x, y) == IF y[1] = 0 THEN NaN ELSE Rat(x[1] * y[2], x[2] * y[1])
RAbs(x) == <<IAbs(x[1]), x[2]>>
RLess(x, y) == x[1] * y[2] < y[1] * x[2]
RMax(x, y) == IF RLess(x, y) THEN y ELSE x

\* ------------------------------------------------- elementwise frame maths
FAdd(f, g) == [i \in DOMAIN f |-> RAdd(f[i], g[i])]
FSub(f, g) == [i \in DOMAIN f |-> RSub(f[i], g[i])]
FMul(f, g) == [i \in DOMAIN f |-> RMul(f[i], g[i])]
FMaximum(f, g) == [i \in DOMAIN f |-> RMax(f[i], g[i])]
FDivide(f, r) == [i \in DOMAIN f |-> RDiv(f[i], r)]
FAbsolute(f) == [i \in DOMAIN f |-> RAbs(f[i])]
FZeros(n) == [i \in 1..n |-> Zero]
FAny(f) == \E i \in DOMAIN f : f[i][1] # 0

RECURSIVE Prod(_)
Prod(s) == IF s = <<>> THEN 1 ELSE Head(s) * Prod(Tail(s))

\* number of entries along axis 0 and number of cells of one entry
NTime(a) == a.shape[1]
Cells(a) == Prod(Tail(a.shape))

RECURSIVE FSum(_, _)
FSum(frames, n) ==
    IF frames = <<>> THEN FZeros(n) ELSE FAdd(Head(frames), FSum(Tail(frames), n))

RECURSIVE FMaxAll(_)
FMaxAll(frames) ==
    IF Len(frames) = 1 THEN Head(frames)
    ELSE FMaximum(Head(frames), FMaxAll(Tail(frames)))

\* np.mean(a, axis=0)
NpMean(frames, n) == FDivide(FSum(frames, n), FromInt(Len(frames)))

\* np.var(a, axis=0): population variance
NpVar(frames, n) ==
    LET m == NpMean(frames, n)
        dev == [t \in DOMAIN frames |-> FSub(frames[t], m)]
    IN  NpMean([t \in DOMAIN frames |-> FMul(dev[t], dev[t])], n)

\* np.amax(a, axis=0)
NpAmax(frames) == FMaxAll(frames)

\* a value handed back to the caller: an ndarray of the given shape, or a
\* Python scalar (shape <<>>)
NdValue(sh, d) == [shape |-> sh, data |-> d]
NoValue == [shape |-> <<-1>>, data |-> <<>>]
Scalar(r) == NdValue(<<>>, <<r>>)

\* ------------------------------------------------------------------ inputs
Orders == {-1, 0, 1, 2, 3, 4, 5}
CumulantOrders == {2, 3, 4}
Lags == {0, 1}
Correlations == {"AVG", "VAR", "TAC2", "MAX"}

Shapes3 ==
    {<<n, h, w>> : n \in 1..MaxCells, h \in 1..MaxH, w \in 1..MaxW}
Shapes2 == {<<n, w>> : n \in 1..MaxCells, w \in 1..MaxW}
Shapes4 == {<<n, 1, 1, w>> : n \in 1..MaxCells, w \in 1..MaxW}

ArraysOf(sh) ==
    {NdValue(sh, d) :
        d \in [1..sh[1] -> [1..Prod(Tail(sh)) -> {FromInt(v) : v \in Vals}]]}

Stacks3 == UNION {ArraysOf(sh) : sh \in {s \in Shapes3 : Prod(s) <= MaxCells}}
StacksOther ==
    UNION {ArraysOf(sh) : sh \in {s \in Shapes2 \cup Shapes4 : Prod(s) <= MaxCells}}
Stacks == Stacks3 \cup StacksOther

Surfaces ==
    UNION {[1..h -> [1..w -> SurfaceVals]] :
              h \in 1..MaxSurfaceSide, w \in 1..MaxSurfaceSide}

\* ------------------------------------------------------------------- state
VARIABLES
    pc,            \* position of the call in progress
    heap,          \* the array buffers; heap[1] is the caller's array
    caller,        \* the caller's array as it was when the call was made
    entry,         \* the function the caller invoked
    order, lag, correlation,    \* its arguments
    im,            \* calculate_*_temporal_correlations: local im (a buffer)
    rad_array,     \* callee parameter rad_array (a buffer)
    acrf_im,       \* calculate_acrf_: local im (a buffer)
    mean, acc, t, tbin, n_binned_time_points, out_array,
    iters,         \* executions of the sliding-window loop body so far
    pps, counter, t0,
    result, err,
    slice_ccm, interpolator, built, evals, x_min

callVars == <<caller, entry, order, lag, correlation>>
refVars == <<im, rad_array, acrf_im>>
acrfVars == <<mean, acc, t, tbin, n_binned_time_points, out_array, iters>>
ppsVars == <<pps, counter, t0>>
optVars == <<slice_ccm, interpolator, built, evals, x_min>>
vars == <<pc, heap, callVars, refVars, acrfVars, ppsVars, result, err, optVars>>

NoAcc == [ab |-> <<>>, abc |-> <<>>, abcd |-> <<>>, cd |-> <<>>,
          ac |-> <<>>, bd |-> <<>>, ad |-> <<>>, bc |-> <<>>]

Init ==
    /\ pc = "idle"
    /\ heap = <<>>
    /\ caller = NoValue
    /\ entry = "none"
    /\ order = 0
    /\ lag = 0
    /\ correlation = "none"
    /\ im = 0
    /\ rad_array = 0
    /\ acrf_im = 0
    /\ mean = <<>>
    /\ acc = NoAcc
    /\ t = 0
    /\ tbin = 0
    /\ n_binned_time_points = Zero
    /\ out_array = NoValue
    /\ iters = 0
    /\ pps = NoValue
    /\ counter = 0
    /\ t0 = 0
    /\ result = NoValue
    /\ err = "none"
    /\ slice_ccm = <<>>
    /\ interpolator = 0
    /\ built = 0
    /\ evals = <<>>
    /\ x_min = <<>>

\* a new buffer holding the same values: np.array(im, dtype='float32') on
\* values float32 holds exactly, and ndarray.copy()
NpCopy(h, ref) == [heap |-> Append(h, h[ref]), ref |-> Len(h) + 1]

\* ---------------------------------------------------------- the caller side
CallSRRF ==
    /\ pc = "idle"
    /\ pc' = "srrf"
    /\ \E a \in Stacks, o \in Orders, l \in Lags :
          /\ heap' = <<a>>
          /\ caller' = a
          /\ order' = o
          /\ lag' = l
    /\ entry' = "SRRF"
    /\ UNCHANGED <<correlation, refVars, acrfVars, ppsVars, result, err, optVars>>

CallESRRF ==
    /\ pc = "idle"
    /\ pc' = "esrrf"
    /\ \E a \in Stacks, c \in Correlations :
          /\ heap' = <<a>>
          /\ caller' = a
          /\ correlation' = c
    /\ entry' = "eSRRF"
    /\ UNCHANGED <<order, lag, refVars, acrfVars, ppsVars, result, err, optVars>>

\* a direct call of calculate_acrf_ on a 3-dimensional float stack
CallAcrf ==
    /\ pc = "idle"
    /\ pc' = "acrf"
    /\ \E a \in Stacks3, o \in CumulantOrders, l \in Lags :
          /\ heap' = <<a>>
          /\ caller' = a
          /\ order' = o
          /\ lag' = l
    /\ entry' = "acrf"
    /\ rad_array' = 1
    /\ UNCHANGED <<correlation, im, acrf_im, acrfVars, ppsVars, result, err, optVars>>

\* the caller takes the outcome; the engine keeps nothing between calls
Return ==
    /\ pc = "done"
    /\ pc' = "idle"
    /\ heap' = <<>>
    /\ caller' = NoValue
    /\ entry' = "none"
    /\ order' = 0
    /\ lag' = 0
    /\ correlation' = "none"
    /\ im' = 0
    /\ rad_array' = 0
    /\ acrf_im' = 0
    /\ mean' = <<>>
    /\ acc' = NoAcc
    /\ t' = 0
    /\ tbin' = 0
    /\ n_binned_time_points' = Zero
    /\ out_array' = NoValue
    /\ iters' = 0
    /\ pps' = NoValue
    /\ counter' = 0
    /\ t0' = 0
    /\ result' = NoValue
    /\ err' = "none"
    /\ slice_ccm' = <<>>
    /\ interpolator' = 0
    /\ built' = 0
    /\ evals' = <<>>
    /\ x_min' = <<>>

\* ---------------------------------- calculate_SRRF_temporal_correlations
\* variant: the dimension check left out of the assertion
SRRF_Assert_OrderOnly(a, o) == o <= 4

\* line 7: assert im.ndim == 3 and order <= 4
SRRF_Assert(a, o) == Len(a.shape) = 3 /\ o <= 4

\* lines 6-7: conversion to a fresh float32 array, then the assertion
SRRF_Enter ==
    /\ pc = "srrf"
    /\ heap' = NpCopy(heap, 1).heap
    /\ im' = NpCopy(heap, 1).ref
    /\ IF SRRF_Assert(heap[1], order)
         THEN pc' = "srrf_dispatch" /\ err' = err
         ELSE pc' = "done" /\ err' = "AssertionError"
    /\ UNCHANGED <<callVars, rad_array, acrf_im, acrfVars, ppsVars, result, optVars>>

SRRF_Max ==
    /\ pc = "srrf_dispatch"
    /\ order = 0
    /\ result' = NdValue(Tail(heap[im].shape), NpAmax(heap[im].data))
    /\ pc' = "done"
    /\ UNCHANGED <<heap, callVars, refVars, acrfVars, ppsVars, err, optVars>>

SRRF_Mean ==
    /\ pc = "srrf_dispatch"
    /\ order = 1
    /\ result' = NdValue(Tail(heap[im].shape), NpMean(heap[im].data, Cells(heap[im])))
    /\ pc' = "done"
    /\ UNCHANGED <<heap, callVars, refVars, acrfVars, ppsVars, err, optVars>>

SRRF_CallPairwise ==
    /\ pc = "srrf_dispatch"
    /\ order = -1
    /\ rad_array' = im
    /\ pc' = "pps"
    /\ UNCHANGED <<heap, callVars, im, acrf_im, acrfVars, ppsVars, result, err, optVars>>

SRRF_CallAcrf ==
    /\ pc = "srrf_dispatch"
    /\ order \notin {0, 1, -1}
    /\ rad_array' = im
    /\ pc' = "acrf"
    /\ UNCHANGED <<heap, callVars, im, acrf_im, acrfVars, ppsVars, result, err, optVars>>

\* --------------------------------- calculate_eSRRF_temporal_correlations
ESRRF_Enter ==
    /\ pc = "esrrf"
    /\ heap' = NpCopy(heap, 1).heap
    /\ im' = NpCopy(heap, 1).ref
    /\ pc' = "esrrf_dispatch"
    /\ UNCHANGED <<callVars, rad_array, acrf_im, acrfVars, ppsVars, result, err, optVars>>

ESRRF_Avg ==
    /\ pc = "esrrf_dispatch"
    /\ correlation = "AVG"
    /\ result' = NdValue(Tail(heap[im].shape), NpMean(heap[im].data, Cells(heap[im])))
    /\ pc' = "done"
    /\ UNCHANGED <<heap, callVars, refVars, acrfVars, ppsVars, err, optVars>>

ESRRF_Var ==
    /\ pc = "esrrf_dispatch"
    /\ correlation = "VAR"
    /\ result' = NdValue(Tail(heap[im].shape), NpVar(heap[im].data, Cells(heap[im])))
    /\ pc' = "done"
    /\ UNCHANGED <<heap, callVars, refVars, acrfVars, ppsVars, err, optVars>>

\* calculate_tac2: lag-1 products of the centred frames, averaged over the
\* T-1 valid t; the mean of an empty slice is not-a-number
Tac2(frames, n) ==
    LET m == NpMean(frames, n)
        centered == [k \in DOMAIN frames |-> FSub(frames[k], m)]
        nlag == 1
        prods == [k \in 1..(Len(frames) - nlag) |->
                     FMul(centered[k], centered[k + nlag])]
    IN  IF prods = <<>> THEN [i \in 1..n |-> NaN] ELSE NpMean(prods, n)

ESRRF_Tac2 ==
    /\ pc = "esrrf_dispatch"
    /\ correlation = "TAC2"
    /\ result' = NdValue(Tail(heap[im].shape), Tac2(heap[im].data, Cells(heap[im])))
    /\ pc' = "done"
    /\ UNCHANGED <<heap, callVars, refVars, acrfVars, ppsVars, err, optVars>>

ESRRF_Raise ==
    /\ pc = "esrrf_dispatch"
    /\ correlation \notin {"AVG", "VAR", "TAC2"}
    /\ err' = "ValueError"
    /\ pc' = "done"
    /\ UNCHANGED <<heap, callVars, refVars, acrfVars, ppsVars, result, optVars>>

\* ------------------------------------------- calculate_pairwise_product_sum
\* v + f where v is a Python scalar or an array of f's shape (broadcasting)
BroadcastAdd(v, f, sh) ==
    IF v.shape = <<>>
      THEN NdValue(sh, [i \in DOMAIN f |-> RAdd(v.data[1], f[i])])
      ELSE NdValue(v.shape, FAdd(v.data, f))

\* lines 55-58 for t1 = from..Len(frames)-1 (0-based)
RECURSIVE InnerPairs(_, _, _, _, _)
InnerPairs(v, r0, frames, from, sh) ==
    IF from >= Len(frames) THEN v
    ELSE LET r1 == FMaximum(frames[from + 1], FZeros(Len(r0)))
         IN  InnerPairs(BroadcastAdd(v, FMul(r0, r1), sh), r0, frames, from + 1, sh)

\* variant: a frame with no positive pixel adds nothing to the count
SkippedPairs_None(n, from) == 0

\* line 60: the count added for a frame with no positive pixel
SkippedPairs(n, from) == n - from

PPS_Begin ==
    /\ pc = "pps"
    /\ out_array' = NdValue(Tail(heap[rad_array].shape), FZeros(Cells(heap[rad_array])))
    /\ counter' = 0
    /\ pps' = Scalar(Zero)
    /\ t0' = 0
    /\ pc' = "pps_loop"
    /\ UNCHANGED <<heap, callVars, refVars, mean, acc, t, tbin,
                   n_binned_time_points, iters, result, err, optVars>>

PPS_Outer ==
    /\ pc = "pps_loop"
    /\ t0 < NTime(heap[rad_array])
    /\ LET frames == heap[rad_array].data
           n == NTime(heap[rad_array])
           r0 == FMaximum(frames[t0 + 1], FZeros(Cells(heap[rad_array])))
       IN  IF FAny(r0)
             THEN /\ pps' = InnerPairs(pps, r0, frames, t0, Tail(heap[rad_array].shape))
                  /\ counter' = counter + (n - t0)
             ELSE /\ pps' = pps
                  /\ counter' = counter + SkippedPairs(n, t0)
    /\ t0' = t0 + 1
    /\ UNCHANGED <<pc, heap, callVars, refVars, acrfVars, result, err, optVars>>

IMax(a, b) == IF a > b THEN a ELSE b

PPS_End ==
    /\ pc = "pps_loop"
    /\ t0 >= NTime(heap[rad_array])
    /\ LET q == NdValue(pps.shape, FDivide(pps.data, FromInt(IMax(counter, 1))))
       IN  /\ pps' = q
           /\ out_array' = q
           /\ result' = q
    /\ pc' = "done"
    /\ UNCHANGED <<heap, callVars, refVars, mean, acc, t, tbin,
                   n_binned_time_points, iters, counter, t0, err, optVars>>

\* --------------------------------------------------------- calculate_acrf_
\* variant: the working series is rad_array itself
WorkingCopy_Alias(h, ref) == [heap |-> h, ref |-> ref]

\* line 68: the working series is a copy of rad_array
WorkingCopy(h, ref) == NpCopy(h, ref)

Acrf_Begin ==
    /\ pc = "acrf"
    /\ heap' = WorkingCopy(heap, rad_array).heap
    /\ acrf_im' = WorkingCopy(heap, rad_array).ref
    /\ LET a == heap[rad_array]
           z == FZeros(Cells(a))
       IN  /\ mean' = NpMean(a.data, Cells(a))
           /\ out_array' = NdValue(Tail(a.shape), z)
           /\ acc' = [ab |-> z, abc |-> z, abcd |-> z, cd |-> z,
                      ac |-> z, bd |-> z, ad |-> z, bc |-> z]
           /\ n_binned_time_points' = FromInt(NTime(a))
    /\ t' = 0
    /\ tbin' = 0
    /\ pc' = IF lag # 1 THEN "acrf_nolag" ELSE "acrf_lag"
    /\ UNCHANGED <<callVars, im, rad_array, iters, ppsVars, result, err, optVars>>

\* variant: the window loop also runs at t = n - order
WindowGuard_Inclusive(tt, n, ord) == ~RLess(RSub(n, FromInt(ord)), FromInt(tt))

\* variant: the window loop runs while the lag-1 partner exists
WindowGuard_LagOne(tt, n, ord) == RLess(FromInt(tt), RSub(n, One))

\* the loop condition of the sliding window: t < n - order
WindowGuard(tt, n, ord) == RLess(FromInt(tt), RSub(n, FromInt(ord)))

\* lines 86-99 and 116-129: one window at offset tt (0-based)
Window(d, m, tt, ord, s) ==
    LET a == FSub(d[tt + 1], m)
        b == FSub(d[tt + 2], m)
        c == FSub(d[tt + 3], m)
        dd == FSub(d[tt + 4], m)
        s2 == [s EXCEPT !.ab = FAdd(@, FMul(a, b))]
    IN  IF ord = 3 THEN [s2 EXCEPT !.abc = FAdd(FAdd(@, FMul(a, b)), c)]
        ELSE IF ord = 4 THEN
            [s2 EXCEPT !.abcd = FAdd(@, FMul(FMul(FMul(a, b), c), dd)),
                       !.cd = FAdd(@, FMul(c, dd)),
                       !.ac = FAdd(@, FMul(a, c)),
                       !.bd = FAdd(@, FMul(b, dd)),
                       !.ad = FAdd(@, FMul(a, dd)),
                       !.bc = FAdd(@, FMul(b, c))]
        ELSE s2

\* the largest time index a window at offset tt reads
WindowLast(tt, ord) == IF ord = 3 THEN tt + 2 ELSE IF ord = 4 THEN tt + 3 ELSE tt + 1

\* variant: np.absolute left out
Finish_Signed(s, ord, n) ==
    IF ord = 3 THEN FDivide(s.abc, n)
    ELSE IF ord = 4 THEN
        FDivide(FSub(FSub(FSub(s.abcd, FMul(s.ab, s.cd)),
                          FMul(s.ac, s.bd)), FMul(s.ad, s.bc)), n)
    ELSE FDivide(s.ab, n)

\* lines 101-106 and 137-142
Finish(s, ord, n) ==
    IF ord = 3 THEN FDivide(FAbsolute(s.abc), n)
    ELSE IF ord = 4 THEN
        FDivide(FAbsolute(FSub(FSub(FSub(s.abcd, FMul(s.ab, s.cd)),
                                    FMul(s.ac, s.bd)), FMul(s.ad, s.bc))), n)
    ELSE FDivide(FAbsolute(s.ab), n)

NoLag_Step ==
    /\ pc = "acrf_nolag"
    /\ WindowGuard(t, FromInt(NTime(heap[acrf_im])), order)
    /\ IF WindowLast(t, order) < NTime(heap[acrf_im])
         THEN /\ acc' = Window(heap[acrf_im].data, mean, t, order, acc)
              /\ t' = t + 1
              /\ iters' = iters + 1
              /\ UNCHANGED <<pc, err>>
         ELSE /\ err' = "IndexError"
              /\ pc' = "done"
              /\ UNCHANGED <<acc, t, iters>>
    /\ UNCHANGED <<heap, callVars, refVars, mean, tbin, n_binned_time_points,
                   out_array, ppsVars, result, optVars>>

NoLag_End ==
    /\ pc = "acrf_nolag"
    /\ ~WindowGuard(t, FromInt(NTime(heap[acrf_im])), order)
    /\ LET q == NdValue(out_array.shape,
                        Finish(acc, order, FromInt(NTime(heap[acrf_im]))))
       IN  out_array' = q /\ result' = q
    /\ pc' = "done"
    /\ UNCHANGED <<heap, callVars, refVars, mean, acc, t, tbin,
                   n_binned_time_points, iters, ppsVars, err, optVars>>

\* line 111: while n_binned_time_points > order
PassGuard(n, ord) == RLess(FromInt(ord), n)

Lag_PassBegin ==
    /\ pc = "acrf_lag"
    /\ PassGuard(n_binned_time_points, order)
    /\ t' = 0
    /\ acc' = [acc EXCEPT !.ab = FZeros(Cells(heap[acrf_im]))]
    /\ pc' = "acrf_lag_inner"
    /\ UNCHANGED <<heap, callVars, refVars, mean, tbin, n_binned_time_points,
                   out_array, iters, ppsVars, result, err, optVars>>

Lag_Exit ==
    /\ pc = "acrf_lag"
    /\ ~PassGuard(n_binned_time_points, order)
    /\ result' = out_array
    /\ pc' = "done"
    /\ UNCHANGED <<heap, callVars, refVars, acrfVars, ppsVars, err, optVars>>

\* line 133: if tbin < n_binned_time_points
BinGuard(tb, n) == RLess(FromInt(tb), n)

\* lines 134-135 from _t = k on: im[t] = im[t] + im[tbin + _t] / order, as far
\* as the index tbin + _t stays inside the series
RECURSIVE BinInto(_, _, _, _, _)
BinInto(d, tt, tb, k, ord) ==
    IF k >= ord - 1 \/ tb + k >= Len(d) THEN d
    ELSE BinInto([d EXCEPT ![tt + 1] = FAdd(@, FDivide(d[tb + k + 1], FromInt(ord)))],
                 tt, tb, k + 1, ord)

\* the largest index lines 134-135 read for a given tbin
BinLast(tb, ord) == tb + (ord - 2)

Lag_Step ==
    /\ pc = "acrf_lag_inner"
    /\ WindowGuard(t, n_binned_time_points, order)
    /\ tbin' = t * order
    /\ LET d == heap[acrf_im].data
           n == Len(d)
           zeroed == [d EXCEPT ![t + 1] = FZeros(Cells(heap[acrf_im]))]
           binned == IF BinGuard(tbin', n_binned_time_points)
                       THEN BinInto(zeroed, t, tbin', 0, order)
                       ELSE zeroed
           fails == BinGuard(tbin', n_binned_time_points) /\ BinLast(tbin', order) >= n
       IN  IF WindowLast(t, order) >= n
             THEN /\ err' = "IndexError"
                  /\ pc' = "done"
                  /\ UNCHANGED <<heap, acc, t, iters>>
             ELSE /\ acc' = Window(d, mean, t, order, acc)
                  /\ heap' = [heap EXCEPT ![acrf_im].data = binned]
                  /\ iters' = iters + 1
                  /\ IF fails
                       THEN err' = "IndexError" /\ pc' = "done" /\ t' = t
                       ELSE err' = err /\ pc' = pc /\ t' = t + 1
    /\ UNCHANGED <<callVars, refVars, mean, n_binned_time_points, out_array,
                   ppsVars, result, optVars>>

Lag_PassEnd ==
    /\ pc = "acrf_lag_inner"
    /\ ~WindowGuard(t, n_binned_time_points, order)
    /\ out_array' = NdValue(out_array.shape, Finish(acc, order, n_binned_time_points))
    /\ n_binned_time_points' = RDiv(n_binned_time_points, FromInt(order))
    /\ pc' = "acrf_lag"
    /\ UNCHANGED <<heap, callVars, refVars, mean, acc, t, tbin, iters,
                   ppsVars, result, err, optVars>>

\* ----------------------------------------------------------- GetMaxOptimizer
\* coordinates are kept in half-pixel units
HalfSteps == {-1, 0, 1}

Flat(s) == [k \in 1..(Len(s) * Len(s[1])) |->
               s[((k - 1) \div Len(s[1])) + 1][((k - 1) % Len(s[1])) + 1]]

\* slice_ccm.argmax(): the first flat index (0-based) holding the maximum
ArgMax(s) ==
    LET f == Flat(s)
    IN  (CHOOSE k \in DOMAIN f :
            /\ \A j \in DOMAIN f : f[j] <= f[k]
            /\ \A j \in 1..(k - 1) : f[j] < f[k]) - 1

\* np.unravel_index(i, shape)
Unravel(i, s) == <<i \div Len(s[1]), i % Len(s[1])>>

CallOptimizer ==
    /\ pc = "idle"
    /\ pc' = "opt_init"
    /\ entry' = "GetMaxOptimizer"
    /\ \E s \in Surfaces : slice_ccm' = s
    /\ UNCHANGED <<heap, caller, order, lag, correlation, refVars, acrfVars,
                   ppsVars, result, err, interpolator, built, evals, x_min>>

\* __init__, lines 11-16: interp2d is given a 0-dimensional y; whether
\* scipy accepts the arguments is left open
Opt_Init ==
    /\ pc = "opt_init"
    /\ \/ /\ interpolator' = 1
          /\ pc' = "opt_ready"
          /\ err' = err
       \/ /\ interpolator' = interpolator
          /\ pc' = "done"
          /\ err' = "InitError"
    /\ UNCHANGED <<heap, callVars, refVars, acrfVars, ppsVars, result,
                   slice_ccm, built, evals, x_min>>

\* get_max, line 28 and the entry into minimize
Opt_GetMax ==
    /\ pc = "opt_ready"
    /\ x_min' = Unravel(ArgMax(slice_ccm), slice_ccm)
    /\ built' = 0
    /\ evals' = <<>>
    /\ pc' = "opt_minimize"
    /\ UNCHANGED <<heap, callVars, refVars, acrfVars, ppsVars, result, err,
                   slice_ccm, interpolator>>

\* the objective minimize is given (line 29)
Objective == "get_interpolated_px_value"

\* one objective evaluation: get_interpolated_px_value (lines 19-22) has
\* griddata build an interpolation structure for this evaluation;
\* get_interpolated_px_value_optimized (line 25) uses self.interpolator
Opt_Eval ==
    /\ pc = "opt_minimize"
    /\ Len(evals) < MaxEvals
    /\ IF Objective = "get_interpolated_px_value"
         THEN /\ built' = built + 1
              /\ evals' = Append(evals, interpolator + built + 1)
         ELSE /\ built' = built
              /\ evals' = Append(evals, interpolator)
    /\ UNCHANGED <<pc, heap, callVars, refVars, acrfVars, ppsVars, result, err,
                   slice_ccm, interpolator, x_min>>

\* Nelder-Mead in two dimensions evaluates its 3 simplex vertices at least
SimplexSize == 3

\* minimize returns; minimizer.x is some point near the seed
Opt_Finish ==
    /\ pc = "opt_minimize"
    /\ Len(evals) >= SimplexSize
    /\ \E dy \in HalfSteps, dx \in HalfSteps :
          result' = NdValue(<<2>>, <<2 * x_min[1] + dy, 2 * x_min[2] + dx>>)
    /\ pc' = "done"
    /\ UNCHANGED <<heap, callVars, refVars, acrfVars, ppsVars, err, optVars>>

\* ------------------------------------------------------------ specification
Next ==
    \/ CallSRRF
    \/ CallESRRF
    \/ CallAcrf
    \/ CallOptimizer
    \/ Return
    \/ SRRF_Enter
    \/ SRRF_Max
    \/ SRRF_Mean
    \/ SRRF_CallPairwise
    \/ SRRF_CallAcrf
    \/ ESRRF_Enter
    \/ ESRRF_Avg
    \/ ESRRF_Var
    \/ ESRRF_Tac2
    \/ ESRRF_Raise
    \/ PPS_Begin
    \/ PPS_Outer
    \/ PPS_End
    \/ Acrf_Begin
    \/ NoLag_Step
    \/ NoLag_End
    \/ Lag_PassBegin
    \/ Lag_Step
    \/ Lag_PassEnd
    \/ Lag_Exit
    \/ Opt_Init
    \/ Opt_GetMax
    \/ Opt_Eval
    \/ Opt_Finish

Spec == Init /\ [][Next]_vars

TypeOK == pc \in {"idle", "srrf", "srrf_dispatch", "esrrf", "esrrf_dispatch",
                  "pps", "pps_loop", "acrf", "acrf_nolag", "acrf_lag",
                  "acrf_lag_inner", "opt_init", "opt_ready", "opt_minimize", "done"}

\* -------------------------------------------------------------- properties
Done == pc = "done"
Returned == Done /\ err = "none"
Is3D == Len(caller.shape) = 3
KnownCorrelations == {"AVG", "VAR", "TAC2"}
CumulantCall == entry \in {"SRRF", "acrf"} /\ order \in CumulantOrders

IsZeroMap(v, a) ==
    /\ v.shape = Tail(a.shape)
    /\ \A i \in DOMAIN v.data : v.data[i] = Zero

\* the 2-frame stack [A, A+1]
StackAPlusOne ==
    /\ Is3D
    /\ NTime(caller) = 2
    /\ \A i \in DOMAIN caller.data[1] :
          caller.data[2][i] = RAdd(caller.data[1][i], One)

C1_Case ==
    /\ Done
    /\ entry = "SRRF"
    /\ order = 2
    /\ lag = 0
    /\ StackAPlusOne

\* C1 as stated: CUMULANT2 without lag integration of [A, A+1] is 0.5 at
\* every pixel.
C1_Original ==
    C1_Case =>
        /\ err = "none"
        /\ result.shape = Tail(caller.shape)
        /\ \A i \in DOMAIN result.data : result.data[i] = Half

\* C1 amended: CUMULANT2 without lag integration of the 2-frame stack
\* [A, A+1] is the all-zero H x W map (with T = order the sliding window
\* never runs).
C1_Amended == C1_Case => (err = "none" /\ IsZeroMap(result, caller))

C1_Witness == C1_Case /\ IsZeroMap(result, caller) /\ iters = 0

C2_Case ==
    /\ Done
    /\ CumulantCall
    /\ Is3D
    /\ NTime(caller) = order

\* C2: with exactly T = order frames, for order 2, 3, 4 and either value of
\* integrate_lag_times, the window loop body never runs, no error is raised
\* and the all-zero H x W map is returned.
C2_ZeroWindows ==
    C2_Case => (err = "none" /\ iters = 0 /\ IsZeroMap(result, caller))

C2_Witness ==
    /\ C2_Case
    /\ order = 3
    /\ lag = 1
    /\ IsZeroMap(result, caller)
    /\ \E i \in DOMAIN caller.data[1] : caller.data[1][i] # caller.data[2][i]

IdenticalFrames ==
    /\ NTime(caller) >= 1
    /\ \A k \in DOMAIN caller.data : caller.data[k] = caller.data[1]

\* C3: on T identical frames F, every returning call gives: MEAN and AVG the
\* frame F, VAR the zero map, CUMULANT2-4 the zero map, with or without
\* lag-time integration.
C3_IdenticalFrames ==
    (Returned /\ IdenticalFrames) =>
        /\ (entry = "SRRF" /\ order = 1) => result.data = caller.data[1]
        /\ (entry = "eSRRF" /\ correlation = "AVG") => result.data = caller.data[1]
        /\ (entry = "eSRRF" /\ correlation = "VAR") => IsZeroMap(result, caller)
        /\ CumulantCall => IsZeroMap(result, caller)

StrictlyNegative ==
    \A k \in DOMAIN caller.data :
        \A i \in DOMAIN caller.data[k] : caller.data[k][i][1] < 0

\* C4: PAIRWISE_PRODUCT_SUM of a stack whose pixels are all strictly negative
\* is an H x W map of zeros.
C4_NegativeStack ==
    (Returned /\ entry = "SRRF" /\ order = -1 /\ StrictlyNegative) =>
        IsZeroMap(result, caller)

Centered(k) == FSub(caller.data[k], NpMean(caller.data, Cells(caller)))

C5_Case ==
    /\ Returned
    /\ entry = "SRRF"
    /\ order = 2
    /\ lag = 0
    /\ NTime(caller) >= 2

\* C5 as stated, for one stack: a positive k exists with
\* CUMULANT2 = k * TAC2 at every pixel, i.e. the two maps vanish at the same
\* pixels, have the same sign, and have the same ratio at every pixel.
C5_Original ==
    C5_Case =>
        LET c == result.data
            q == Tac2(caller.data, Cells(caller))
        IN  /\ \A i \in DOMAIN c : (c[i] = Zero) <=> (q[i] = Zero)
            /\ \A i \in DOMAIN c : (c[i][1] > 0) <=> (q[i][1] > 0)
            /\ \A i, j \in DOMAIN c : RMul(c[i], q[j]) = RMul(c[j], q[i])

\* C5 amended: for T >= 2 frames, T * CUMULANT2 is the absolute value of
\* (T-1) * TAC2 less the last lag-1 centred product: CUMULANT2 leaves the last
\* window out and drops the sign.
C5_Amended ==
    C5_Case =>
        LET n == NTime(caller)
            q == Tac2(caller.data, Cells(caller))
            last == FMul(Centered(n - 1), Centered(n))
        IN  \A i \in DOMAIN result.data :
               RMul(FromInt(n), result.data[i]) =
                   RAbs(RSub(RMul(FromInt(n - 1), q[i]), last[i]))

C5_Witness ==
    /\ C5_Case
    /\ NTime(caller) >= 4
    /\ \E i \in DOMAIN result.data :
          /\ result.data[i][1] > 0
          /\ Tac2(caller.data, Cells(caller))[i][1] < 0

EngineCall == entry \in {"SRRF", "eSRRF"}
UnknownTag == entry = "eSRRF" /\ correlation \notin KnownCorrelations
TooFewFrames == entry = "SRRF" /\ order \in CumulantOrders /\ NTime(caller) <= order

\* C6 as stated: a call of the engine ends in an error exactly when its
\* correlation tag is unrecognized.
C6_Original == (Done /\ EngineCall) => ((err # "none") <=> UnknownTag)

Rejected == err \in {"ValueError", "AssertionError"}

\* C6 amended: a call of the engine is rejected by validation exactly when
\* its correlation tag is unrecognized (ValueError) or, in the SRRF family,
\* when the stack is not 3-dimensional or the order exceeds 4
\* (AssertionError); a rejected call does no accumulation and gives no result,
\* and too few frames for the order is never rejected.
C6_Amended ==
    (Done /\ EngineCall) =>
        /\ Rejected <=> (UnknownTag \/ (entry = "SRRF" /\ (~Is3D \/ order > 4)))
        /\ Rejected => (result = NoValue /\ iters = 0 /\ acrf_im = 0)
        /\ (TooFewFrames /\ Is3D) => err = "none"

C6_Witness ==
    /\ Done
    /\ entry = "SRRF"
    /\ err = "AssertionError"
    /\ ~Is3D
    /\ order = 2

\* C7: whatever the kind and integrate_lag_times, the caller's stack holds
\* the values it held when the call was made, and the working series of
\* calculate_acrf_ is never the caller's buffer.
C7_InputUntouched ==
    (heap # <<>>) => (heap[1] = caller /\ acrf_im # 1)

C7_Witness ==
    /\ Done
    /\ lag = 1
    /\ entry = "acrf"
    /\ heap[acrf_im] # caller
    /\ heap[1] = caller

\* C8: in one get_max call the interpolation structure exists once and every
\* objective evaluation uses that one; no evaluation builds another.
C8_SingleInterpolant ==
    (Done /\ entry = "GetMaxOptimizer" /\ err = "none") =>
        /\ built = 0
        /\ \A k \in DOMAIN evals : evals[k] = interpolator

C9_Case ==
    /\ CumulantCall
    /\ lag = 1
    /\ Is3D
    /\ NTime(caller) > order

\* C9: with integrate_lag_times and T > order the call never indexes the
\* working series outside 0..T-1, and it returns the map of the last
\* completed pass once the remaining count is at or below order.
C9_LagInRange ==
    C9_Case =>
        /\ err = "none"
        /\ Done => (result = out_array /\ ~PassGuard(n_binned_time_points, order))

HasPositive ==
    \E k \in DOMAIN caller.data :
        \E i \in DOMAIN caller.data[k] : caller.data[k][i][1] > 0

Clip(r) == IF r[1] < 0 THEN Zero ELSE r

RECURSIVE PairTotal(_, _, _)
PairTotal(i, a, b) ==
    IF a > NTime(caller) THEN Zero
    ELSE IF b > NTime(caller) THEN PairTotal(i, a + 1, a + 1)
    ELSE RAdd(RMul(Clip(caller.data[a][i]), Clip(caller.data[b][i])),
              PairTotal(i, a, b + 1))

C10_Case ==
    /\ Returned
    /\ entry = "SRRF"
    /\ order = -1
    /\ HasPositive

\* C10: with at least one positive pixel, PAIRWISE_PRODUCT_SUM is, per pixel,
\* the sum over all pairs t0 <= t1 of the clipped products divided by
\* T*(T+1)/2, whatever number of frames have no positive pixel.
C10_PairwiseMean ==
    C10_Case =>
        LET n == NTime(caller)
        IN  /\ counter = (n * (n + 1)) \div 2
            /\ result.shape = Tail(caller.shape)
            /\ \A i \in DOMAIN result.data :
                  result.data[i] =
                      RDiv(PairTotal(i, 1, 1), FromInt((n * (n + 1)) \div 2))

C10_Witness ==
    /\ C10_Case
    /\ NTime(caller) >= 3
    /\ \E k \in DOMAIN caller.data :
          \A i \in DOMAIN caller.data[k] : caller.data[k][i][1] <= 0
    /\ \E i \in DOMAIN result.data : result.data[i][1] > 0

====
